---------------------------- MODULE Spec2Model ----------------------------
(***************************************************************************)
(* A model of slack-qna-node's SlackQna adapter: the constructor's         *)
(* reaction defaults, registerHandler, postMessage (the outbound           *)
(* dispatcher), processMessage (the reaction / handler / reply lifecycle,  *)
(* one step per await of the code) and markdownToMrkdwn (the text          *)
(* transformer, regular expression by regular expression).                 *)
(*                                                                         *)
(* Text (message data, fault messages) is a sequence of one-character      *)
(* strings, so that the regular expressions of markdownToMrkdwn can be     *)
(* computed on it.  Identifiers (channels, timestamps, emoji names) are    *)
(* plain strings.  JavaScript's undefined is the string Undefined.         *)
(***************************************************************************)
EXTENDS Integers, Sequences, FiniteSets, TLC

VARIABLES
    args,           \* the reactions of the SlackQnaArgs the constructor was given (history)
    listening,      \* the event kinds listen subscribed to, and whether it was called
    reactions,      \* this.reactions, as the constructor built it
    commandHook,    \* this.commandHook: NoHook or the registered hook
    registered,     \* the registerHandler calls made: how many, and the hook of the
                    \* last one (history)
    runs,           \* the processMessage runs: position, incoming message, calls issued
    posts           \* postMessage calls made by the application itself

vars == <<args, listening, reactions, commandHook, registered, runs, posts>>

-----------------------------------------------------------------------------
(* Bounds of the model *)

\* processMessage runs the model starts (concurrently)
MaxRuns == 2
\* registerHandler calls the model makes
MaxRegister == 2
\* postMessage calls the application makes on its own
MaxPosts == 1
\* lines of the markdown texts the application posts
MaxLines == 2

-----------------------------------------------------------------------------
(* JavaScript values *)

Undefined == "<undefined>"

\* a value x for which x || d yields d and if (x) is not taken (identifiers)
Falsy(x) == x \in {Undefined, ""}

\* string | Buffer payloads: typeof v === 'string' or Buffer.isBuffer(v)
Str(s) == [kind |-> "string", val |-> s]
Buf(b) == [kind |-> "buffer", val |-> b]
\* a text that is not there (an optional field left out)
Undef == [kind |-> "undefined", val |-> <<>>]
IsString(v) == v.kind = "string"
IsBuffer(v) == v.kind = "buffer"

\* if (v), on a handler's result or an event's text: undefined and the empty
\* string are falsy; every Buffer, also one of length 0, is an object and so truthy
Truthy(v) == ~(v = Undef \/ (IsString(v) /\ v.val = <<>>))

-----------------------------------------------------------------------------
(* markdownToMrkdwn: the text transformer.  Each String.replace of the code *)
(* is a rule: MatchEnd says where the regular expression matches at a      *)
(* position, Replacement what the match becomes, ReplaceFrom is the global *)
(* (flag g) left-to-right replacement.                                     *)

\* the U+2022 bullet the list rules write
Bullet == "U+2022"
\* the U+0060 backtick, and the fence of a code block
BackTick == "U+0060"
Fence == <<BackTick, BackTick, BackTick>>

\* \s and the line terminators (the ones the model's alphabet has)
IsSpace(c) == c \in {" ", "\t", "\n", "\r"}
IsLineTerminator(c) == c \in {"\n", "\r"}
IsDigit(c) == c \in {"0", "1", "2", "3", "4", "5", "6", "7", "8", "9"}

\* s has p at position i
StartsWith(s, i, p) == i + Len(p) - 1 <= Len(s) /\ SubSeq(s, i, i + Len(p) - 1) = p

\* ^ and $ under flag m
AtLineStart(s, i) == i = 1 \/ IsLineTerminator(s[i - 1])
AtLineEnd(s, i) == i = Len(s) + 1 \/ IsLineTerminator(s[i])

\* the smallest element of a non-empty set of positions, and the largest
Least(S) == CHOOSE j \in S : \A k \in S : j <= k
Greatest(S) == CHOOSE j \in S : \A k \in S : k <= j

\* where a greedy .* that starts at i stops: the dot matches no line terminator
LineEnd(s, i) == Least({j \in i..(Len(s) + 1) : AtLineEnd(s, j)})
\* where a greedy \s* that starts at i stops
SpaceEnd(s, i) == Least({j \in i..(Len(s) + 1) : j = Len(s) + 1 \/ ~IsSpace(s[j])})
\* where a greedy \d* that starts at i stops
DigitEnd(s, i) == Least({j \in i..(Len(s) + 1) : j = Len(s) + 1 \/ ~IsDigit(s[j])})

\* no line terminator in s[a..b]: what a .*? can cross
NoBreak(s, a, b) == \A k \in a..b : ~IsLineTerminator(s[k])

\* String.prototype.trim
Trim(s) ==
    LET keep == {k \in 1..Len(s) : ~IsSpace(s[k])}
    IN IF keep = {} THEN <<>> ELSE SubSeq(s, Least(keep), Greatest(keep))

\* the positions j where a lazy a .*? begun at from can stop before the closing
\* delimiter close
LazyStops(s, from, close) ==
    {j \in from..Len(s) : StartsWith(s, j, close) /\ NoBreak(s, from, j - 1)}

\* link rule: the positions j of a "](" that closes a label begun at from and is
\* followed on its line by a ")"
LinkMids(s, from) ==
    {j \in from..Len(s) : /\ StartsWith(s, j, <<"]", "(">>)
                          /\ NoBreak(s, from, j - 1)
                          /\ LazyStops(s, j + 2, <<")">>) # {}}

HeaderPrefix(rule) ==
    CASE rule = "h1" -> <<"#", " ">>
      [] rule = "h2" -> <<"#", "#", " ">>
      [] rule = "h3" -> <<"#", "#", "#", " ">>
      [] rule = "ul" -> <<"*", " ">>

\* the position after the match of rule's regular expression at position i of s
\* (i itself for an empty match), or 0 when it does not match at i
MatchEnd(rule, s, i) ==
    CASE rule = "blank" ->          \* /\n\s*\n/gm
            IF i <= Len(s) /\ s[i] = "\n"
               /\ {j \in (i + 1)..(SpaceEnd(s, i + 1) - 1) : s[j] = "\n"} # {}
            THEN Greatest({j \in (i + 1)..(SpaceEnd(s, i + 1) - 1) : s[j] = "\n"}) + 1
            ELSE 0
      [] rule = "indent" ->         \* /^\s*/gm
            IF AtLineStart(s, i) THEN SpaceEnd(s, i) ELSE 0
      [] rule \in {"h1", "h2", "h3", "ul"} ->   \* /^# (.*$)/gm ... /^\* (.*$)/gm
            IF i <= Len(s) /\ AtLineStart(s, i) /\ StartsWith(s, i, HeaderPrefix(rule))
            THEN LineEnd(s, i + Len(HeaderPrefix(rule)))
            ELSE 0
      [] rule = "ol" ->             \* /^\d+\. (.*$)/gm
            IF i <= Len(s) /\ AtLineStart(s, i) /\ DigitEnd(s, i) > i
               /\ StartsWith(s, DigitEnd(s, i), <<".", " ">>)
            THEN LineEnd(s, DigitEnd(s, i) + 2)
            ELSE 0
      [] rule = "bold" ->           \* /\*\*(.*?)\*\*/g
            IF StartsWith(s, i, <<"*", "*">>) /\ LazyStops(s, i + 2, <<"*", "*">>) # {}
            THEN Least(LazyStops(s, i + 2, <<"*", "*">>)) + 2
            ELSE 0
      [] rule = "italic" ->         \* /\_(.*?)\_/g
            IF StartsWith(s, i, <<"_">>) /\ LazyStops(s, i + 1, <<"_">>) # {}
            THEN Least(LazyStops(s, i + 1, <<"_">>)) + 1
            ELSE 0
      [] rule = "code" ->           \* /BackTick([^BackTick]+)BackTick/g
            IF StartsWith(s, i, <<BackTick>>) /\ {j \in (i + 2)..Len(s) : s[j] = BackTick} # {}
               /\ ~StartsWith(s, i + 1, <<BackTick>>)
            THEN Least({j \in (i + 2)..Len(s) : s[j] = BackTick}) + 1
            ELSE 0
      [] rule = "fence" ->          \* /Fence[\s\S]*?Fence/g
            IF StartsWith(s, i, Fence)
               /\ {j \in (i + 3)..Len(s) : StartsWith(s, j, Fence)} # {}
            THEN Least({j \in (i + 3)..Len(s) : StartsWith(s, j, Fence)}) + 3
            ELSE 0
      [] rule = "link" ->           \* /\[(.*?)\]\((.*?)\)/g
            IF StartsWith(s, i, <<"[">>) /\ LinkMids(s, i + 1) # {}
            THEN Least(LazyStops(s, Least(LinkMids(s, i + 1)) + 2, <<")">>)) + 1
            ELSE 0

\* what the match s[i..e-1] of rule is replaced by
Replacement(rule, s, i, e) ==
    CASE rule = "blank" -> <<"\n", "\n">>
      [] rule = "indent" -> <<>>
      [] rule \in {"h1", "h2", "h3"} ->         \* *$1*
            <<"*">> \o SubSeq(s, i + Len(HeaderPrefix(rule)), e - 1) \o <<"*">>
      [] rule = "ul" ->                         \* Bullet, space, $1
            <<Bullet, " ">> \o SubSeq(s, i + 2, e - 1)
      [] rule = "ol" ->                         \* Bullet, space, $1
            <<Bullet, " ">> \o SubSeq(s, DigitEnd(s, i) + 2, e - 1)
      [] rule = "bold" ->                       \* *$1*
            <<"*">> \o SubSeq(s, i + 2, e - 3) \o <<"*">>
      [] rule = "italic" ->                     \* _$1_
            <<"_">> \o SubSeq(s, i + 1, e - 2) \o <<"_">>
      [] rule = "code" ->                       \* BackTick $1 BackTick
            <<BackTick>> \o SubSeq(s, i + 1, e - 2) \o <<BackTick>>
      [] rule = "fence" ->                      \* Fence + match.slice(3, -3).trim() + Fence
            Fence \o Trim(SubSeq(s, i + 3, e - 4)) \o Fence
      [] rule = "link" ->                       \* <$2|$1>
            LET mid == Least(LinkMids(s, i + 1))
            IN <<"<">> \o SubSeq(s, mid + 2, e - 2) \o <<"|">>
               \o SubSeq(s, i + 1, mid - 1) \o <<">">>

\* s.replace(regexp of rule, replacement), flag g, for the part of s from i on: a
\* match is replaced and the scan resumes after it; after an empty match, and
\* where nothing matches, one character is copied
RECURSIVE ReplaceFrom(_, _, _)
ReplaceFrom(rule, s, i) ==
    IF i > Len(s) + 1 THEN <<>>
    ELSE LET e == MatchEnd(rule, s, i)
             copy == IF i > Len(s) THEN <<>> ELSE <<s[i]>> \o ReplaceFrom(rule, s, i + 1)
         IN IF e = 0 THEN copy
            ELSE IF e = i THEN Replacement(rule, s, i, e) \o copy
            ELSE Replacement(rule, s, i, e) \o ReplaceFrom(rule, s, e)

Replace(rule, s) == ReplaceFrom(rule, s, 1)

\* the replacements of markdownToMrkdwn, in the order of the code (the third
\* header level is replaced twice there)
MarkdownRules ==
    <<"blank", "indent", "h1", "h2", "h3", "h3", "bold", "italic", "code", "fence",
      "link", "ul", "ol">>

RECURSIVE ApplyRules(_, _, _)
ApplyRules(rules, s, n) ==
    IF n > Len(rules) THEN s ELSE ApplyRules(rules, Replace(rules[n], s), n + 1)

markdownToMrkdwn(markdown) == ApplyRules(MarkdownRules, markdown, 1)

-----------------------------------------------------------------------------
(* The constructor *)

\* args.reactions of SlackQnaArgs: each kind is an emoji name, the empty string or
\* undefined (a reactions object left out altogether reads as three undefined)
ReactionArgs ==
    { [loading |-> Undefined, success |-> Undefined, failed |-> Undefined],
      [loading |-> "", success |-> "ok_hand", failed |-> "no_entry"],
      [loading |-> "eyes", success |-> "", failed |-> Undefined] }

\* x || d
OrElse(x, d) == IF Falsy(x) THEN d ELSE x

\* this.reactions = { loading: args.reactions?.loading || 'thinking_face', ... }
Constructor(given) ==
    [loading |-> OrElse(given.loading, "thinking_face"),
     success |-> OrElse(given.success, "white_check_mark"),
     failed  |-> OrElse(given.failed, "x")]

-----------------------------------------------------------------------------
(* postMessage: the outbound dispatcher *)

\* (a variant whose default block kind is section)
Block_DefaultSection(block, text) ==
    IF block = "context"
    THEN [type |-> "context", elements |-> <<[text |-> text, type |-> "mrkdwn"]>>]
    ELSE [text |-> [text |-> text, type |-> "mrkdwn"], type |-> "section"]

\* the layout block of a mrkdwn / markdown message
Block(block, text) ==
    IF block = "section"
    THEN [text |-> [text |-> text, type |-> "mrkdwn"], type |-> "section"]
    ELSE [type |-> "context", elements |-> <<[text |-> text, type |-> "mrkdwn"]>>]

\* chat.postMessage({ channel, thread_ts, text })
SendText(message) ==
    [args |-> [text |-> message.data.val, channel |-> message.channelId,
               thread_ts |-> message.threadId],
     api |-> "chat.postMessage"]

\* chat.postMessage({ channel, thread_ts, blocks: [block], text })
SendBlocks(message, mrkdwn) ==
    [args |-> [text |-> message.data.val, channel |-> message.channelId,
               thread_ts |-> message.threadId,
               blocks |-> <<Block(message.block, mrkdwn)>>],
     api |-> "chat.postMessage"]

\* (a variant that names every upload data.png)
Upload_AlwaysPng(message, filename) ==
    [args |-> [thread_ts |-> message.threadId, filename |-> "data.png",
               channel_id |-> message.channelId, file |-> message.data.val],
     api |-> "filesUploadV2"]

\* filesUploadV2({ channel_id, thread_ts, file, filename })
Upload(message, filename) ==
    [args |-> [thread_ts |-> message.threadId, filename |-> filename,
               channel_id |-> message.channelId, file |-> message.data.val],
     api |-> "filesUploadV2"]

\* the platform calls postMessage(message) issues: none or one
PostMessageCalls(message) ==
    IF message.dataType = "text" /\ IsString(message.data)
    THEN <<SendText(message)>>
    ELSE IF message.dataType = "mrkdwn" /\ IsString(message.data)
    THEN <<SendBlocks(message, message.data.val)>>
    ELSE IF message.dataType = "markdown" /\ IsString(message.data)
    THEN <<SendBlocks(message, markdownToMrkdwn(message.data.val))>>
    ELSE IF message.dataType = "image" /\ IsBuffer(message.data)
    THEN <<Upload(message, "data.png")>>
    ELSE IF message.dataType = "file" /\ IsBuffer(message.data)
    THEN <<Upload(message, "data.txt")>>
    ELSE <<>>

\* a platform call as the model logs it: pending until the platform answers
\* (awaited: the caller is suspended on it)
Pending(call, awaited) ==
    [args |-> call.args, api |-> call.api, awaited |-> awaited, status |-> "pending"]
Settled(call, ok) == [call EXCEPT !.status = IF ok THEN "ok" ELSE "failed"]

-----------------------------------------------------------------------------
(* Inputs of the lifecycle *)

\* this.commandHook before any registerHandler
NoHook == [block |-> Undefined, dataType |-> Undefined, isSync |-> FALSE, handler |-> Undefined]

\* the CommandHooks the application registers
Hooks ==
    { [block |-> Undefined,  dataType |-> "text",     isSync |-> TRUE, handler |-> "h1"],
      [block |-> "section",  dataType |-> "markdown", isSync |-> TRUE, handler |-> "h2"],
      [block |-> Undefined, dataType |-> "image",    isSync |-> FALSE, handler |-> "h3"] }

\* what a handler resolves with: string | Buffer
HandlerValues ==
    { Str(<<>>), Str(<<"*", "*", "b", "*", "*">>), Buf(<<"x89">>) }

\* what is thrown: an Error with its message, or a value that is no Error and has
\* no message (throw 'text')
Error(m) == [message |-> m, thrown |-> "Error"]
NonError == [message |-> <<>>, thrown |-> "value"]
NoFault == [message |-> <<>>, thrown |-> "none"]

\* what a handler rejects with
HandlerFaults == { Error(<<"b", "o", "o", "m">>), Error(<<>>), NonError }

\* what a failed platform call rejects with
PlatformFault == Error(<<"n", "e", "t">>)

\* the inbound message of the r-th event: its own timestamp, a channel, and the
\* thread it was written in (every other message is a reply in a thread)
MessageId(r) == "1700.000" \o ToString(r)
ChannelId(r) == IF r % 2 = 1 THEN "C1" ELSE "D2"
ThreadId(r) == IF r % 2 = 1 THEN "1699.0000" ELSE Undefined
IncomingMessages(r) ==
    { [message |-> <<"h", "i">>, channelId |-> ChannelId(r), threadId |-> ThreadId(r),
       messageId |-> MessageId(r), raw |-> <<"h", "i">>] }
NoMessage ==
    [message |-> <<>>, channelId |-> Undefined, threadId |-> Undefined,
     messageId |-> Undefined, raw |-> <<>>]

\* no inbound event: processMessage was called by the application itself
NoEvent ==
    [text |-> Undef, type |-> "none", channel |-> Undefined, thread_ts |-> Undefined,
     ts |-> Undefined]

RunIds == 1..MaxRuns

\* a processMessage run that has not begun.
\*   pc         the await the run is suspended at
\*   msg        incomingMessage
\*   hook       the hook whose handler the run invoked (history)
\*   sync       the branch of if (isSync) the run took
\*   result     how the handler completed: returned / threw (history)
\*   value      what the handler resolved with (history)
\*   err        err of the catch clause
\*   thrown     a fault is propagating through the finally clause
\*   unhandled  a promise nobody awaits was rejected
\*   calls      the platform calls issued, in order (history)
\*   regs       how many registerHandler calls preceded the run (history)
\*   invoked    the handlers the run invoked, in order (history)
\*   event      the inbound event the run was started for (history)
IdleRun ==
    [thrown |-> FALSE, pc |-> "idle", msg |-> NoMessage, hook |-> NoHook,
     sync |-> FALSE, result |-> "none", value |-> Str(<<>>), err |-> NoFault,
     unhandled |-> FALSE, calls |-> <<>>, regs |-> 0, invoked |-> <<>>,
     event |-> NoEvent]

-----------------------------------------------------------------------------
(* processMessage, piece by piece *)

\* (a variant that reacts to the message that began the thread)
ReactionCall_OnThread(api, msg, name) ==
    [args |-> [channel |-> msg.channelId, name |-> name, timestamp |-> msg.threadId], api |-> api]

\* slackApp.client.reactions.add / remove on the incoming message
ReactionCall(api, msg, name) ==
    [args |-> [channel |-> msg.channelId, name |-> name, timestamp |-> msg.messageId], api |-> api]

\* the run after it issued the platform calls cs and awaits them
Issue(run, cs) ==
    [run EXCEPT !.calls = @ \o [i \in 1..Len(cs) |-> Pending(cs[i], TRUE)]]

\* the run after it issued the platform calls cs without awaiting them
IssueDetached(run, cs) ==
    [run EXCEPT !.calls = @ \o [i \in 1..Len(cs) |-> Pending(cs[i], FALSE)]]

\* the call the run awaits is the last one it issued; the platform answers it
Answer(run, ok) ==
    [run EXCEPT !.calls[Len(run.calls)] = Settled(@, ok)]

\* (a variant that leaves the fault's message out)
ApologyText_NoMessage(err) ==
    <<"S", "o", "r", "r", "y", ",", " ", "s", "o", "m", "e", "t", "h", "i", "n", "g", " ",
      "w", "e", "n", "t", " ", "w", "r", "o", "n", "g", ".", " ", "(", ")">>

\* the text of the apology
ApologyText(err) ==
    <<"S", "o", "r", "r", "y", ",", " ", "s", "o", "m", "e", "t", "h", "i", "n", "g", " ",
      "w", "e", "n", "t", " ", "w", "r", "o", "n", "g", ".", " ", "(">>
    \o (IF err.thrown = "Error" /\ err.message # <<>> THEN err.message ELSE <<>>)
    \o <<")">>

\* (a variant that cleans up at the end of the try and catch blocks, not in a
\* finally clause: a fault that leaves the catch block skips it)
Finally_NotOnFault(run, rs, thrown) ==
    IF ~Falsy(rs.loading) /\ ~thrown
    THEN [Issue(run, <<ReactionCall("reactions.remove", run.msg, rs.loading)>>)
            EXCEPT !.pc = "loadingRemove", !.thrown = thrown]
    ELSE [run EXCEPT !.pc = IF thrown THEN "rejected" ELSE "returned", !.thrown = thrown]

\* finally { if (this.reactions.loading) await reactions.remove(...) }
Finally(run, rs, thrown) ==
    IF ~Falsy(rs.loading)
    THEN [Issue(run, <<ReactionCall("reactions.remove", run.msg, rs.loading)>>)
            EXCEPT !.pc = "loadingRemove", !.thrown = thrown]
    ELSE [run EXCEPT !.pc = IF thrown THEN "rejected" ELSE "returned", !.thrown = thrown]

\* await this.postMessage({ dataType: 'text', ..., data: `Sorry, ...` })
Apology(run, rs, err) ==
    LET cs == PostMessageCalls([block |-> Undefined, data |-> Str(ApologyText(err)),
                                channelId |-> run.msg.channelId,
                                threadId |-> run.msg.messageId,
                                dataType |-> "text"])
    IN IF cs = <<>> THEN Finally(run, rs, FALSE)
       ELSE [Issue(run, cs) EXCEPT !.pc = "apology"]

\* catch (err) { if (this.reactions.failed) await reactions.add(...); ... }
Catch(run, rs, err) ==
    IF ~Falsy(rs.failed)
    THEN [Issue(run, <<ReactionCall("reactions.add", run.msg, rs.failed)>>)
            EXCEPT !.pc = "failedAdd", !.err = err]
    ELSE Apology([run EXCEPT !.err = err], rs, err)

\* (a variant that takes the synchronous branch whatever the hook says)
EnterTry_AlwaysSync(run, hook) ==
    [run EXCEPT !.pc = "handler", !.sync = TRUE, !.hook = hook,
                !.invoked = Append(@, hook.handler)]

\* try { if (this.commandHook.isSync) ... await this.commandHook.handler(...) }
EnterTry(run, hook) ==
    [run EXCEPT !.pc = "handler", !.sync = hook.isSync, !.hook = hook,
                !.invoked = Append(@, hook.handler)]

\* (a variant that posts whatever the handler resolved with, empty or not)
AfterHandler_PostsEmpty(run, rs, hook, message) ==
    LET replied ==
            IssueDetached(run, PostMessageCalls([block |-> hook.block,
                                                 data |-> message,
                                                 channelId |-> run.msg.channelId,
                                                 threadId |-> run.msg.messageId,
                                                 dataType |-> hook.dataType]))
    IN IF ~Falsy(rs.success)
       THEN [Issue(replied, <<ReactionCall("reactions.add", run.msg, rs.success)>>)
               EXCEPT !.pc = "successAdd"]
       ELSE Finally(replied, rs, FALSE)

\* the synchronous branch once the handler has resolved with message: the reply is
\* posted but not awaited, then the success reaction is added
AfterHandler(run, rs, hook, message) ==
    LET replied ==
            IF Truthy(message)
            THEN IssueDetached(run, PostMessageCalls([block |-> hook.block,
                                                      data |-> message,
                                                      channelId |-> run.msg.channelId,
                                                      threadId |-> run.msg.messageId,
                                                      dataType |-> hook.dataType]))
            ELSE run
    IN IF ~Falsy(rs.success)
       THEN [Issue(replied, <<ReactionCall("reactions.add", run.msg, rs.success)>>)
               EXCEPT !.pc = "successAdd"]
       ELSE Finally(replied, rs, FALSE)

\* (a variant without the early return of a missing hook)
Begin_NoHookCheck(run, rs, hook, msg) ==
    LET started == [run EXCEPT !.msg = msg]
    IN IF ~Falsy(rs.loading)
       THEN [Issue(started, <<ReactionCall("reactions.add", msg, rs.loading)>>)
               EXCEPT !.pc = "loadingAdd"]
       ELSE EnterTry(started, hook)

\* processMessage up to its first await
Begin(run, rs, hook, msg) ==
    LET started == [run EXCEPT !.msg = msg]
    IN IF hook = NoHook THEN [started EXCEPT !.pc = "returned"]
       ELSE IF ~Falsy(rs.loading)
       THEN [Issue(started, <<ReactionCall("reactions.add", msg, rs.loading)>>)
               EXCEPT !.pc = "loadingAdd"]
       ELSE EnterTry(started, hook)

-----------------------------------------------------------------------------
(* The state machine *)

Init ==
    /\ args \in ReactionArgs
    /\ listening = [started |-> FALSE, directMessage |-> FALSE, mention |-> FALSE]
    /\ reactions = Constructor(args)
    /\ commandHook = NoHook
    /\ registered = [count |-> 0, last |-> NoHook]
    /\ runs = [r \in RunIds |-> IdleRun]
    /\ posts = <<>>

\* (a variant that keeps the hook registered first)
RegisterHandler_KeepsFirst(hook) ==
    /\ registered.count < MaxRegister
    /\ commandHook' = IF commandHook = NoHook THEN hook ELSE commandHook
    /\ registered' = [count |-> registered.count + 1, last |-> hook]
    /\ UNCHANGED <<args, listening, reactions, runs, posts>>

\* registerHandler(hook)
RegisterHandler(hook) ==
    /\ registered.count < MaxRegister
    /\ commandHook' = hook
    /\ registered' = [count |-> registered.count + 1, last |-> hook]
    /\ UNCHANGED <<args, listening, reactions, runs, posts>>

\* processMessage(incomingMessage) is called for the r-th inbound event
ProcessMessage(r, msg) ==
    /\ runs[r].pc = "idle"
    /\ \A q \in 1..(r - 1) : runs[q].pc # "idle"
    /\ runs' = [runs EXCEPT ![r] = Begin([@ EXCEPT !.regs = registered.count],
                                         reactions, commandHook, msg)]
    /\ UNCHANGED <<args, listening, reactions, commandHook, registered, posts>>

\* (a variant with the loading-add inside the try block: its fault is caught)
LoadingAddDone_Caught(r, ok) ==
    /\ runs[r].pc = "loadingAdd"
    /\ runs' = [runs EXCEPT ![r] =
                    IF ok THEN EnterTry(Answer(@, ok), commandHook)
                    ELSE Catch(Answer(@, ok), reactions, PlatformFault)]
    /\ UNCHANGED <<args, listening, reactions, commandHook, registered, posts>>

\* the loading-add call is answered
LoadingAddDone(r, ok) ==
    /\ runs[r].pc = "loadingAdd"
    /\ runs' = [runs EXCEPT ![r] =
                    IF ok THEN EnterTry(Answer(@, ok), commandHook)
                    ELSE [Answer(@, ok) EXCEPT !.pc = "rejected", !.thrown = TRUE]]
    /\ UNCHANGED <<args, listening, reactions, commandHook, registered, posts>>

\* the handler resolves with message
HandlerReturn(r, message) ==
    /\ runs[r].pc = "handler"
    /\ runs' = [runs EXCEPT ![r] =
                    IF @.sync
                    THEN AfterHandler([@ EXCEPT !.result = "returned", !.value = message],
                                      reactions, commandHook, message)
                    ELSE Finally([@ EXCEPT !.result = "returned", !.value = message],
                                 reactions, FALSE)]
    /\ UNCHANGED <<args, listening, reactions, commandHook, registered, posts>>

\* the handler throws, or rejects
HandlerThrow(r, err) ==
    /\ runs[r].pc = "handler"
    /\ runs' = [runs EXCEPT ![r] = Catch([@ EXCEPT !.result = "threw"], reactions, err)]
    /\ UNCHANGED <<args, listening, reactions, commandHook, registered, posts>>

\* (a variant with the success-add after the try block: its fault is not caught)
SuccessAddDone_Propagates(r, ok) ==
    /\ runs[r].pc = "successAdd"
    /\ runs' = [runs EXCEPT ![r] = Finally(Answer(@, ok), reactions, ~ok)]
    /\ UNCHANGED <<args, listening, reactions, commandHook, registered, posts>>

\* the success-add call is answered
SuccessAddDone(r, ok) ==
    /\ runs[r].pc = "successAdd"
    /\ runs' = [runs EXCEPT ![r] =
                    IF ok THEN Finally(Answer(@, ok), reactions, FALSE)
                    ELSE Catch(Answer(@, ok), reactions, PlatformFault)]
    /\ UNCHANGED <<args, listening, reactions, commandHook, registered, posts>>

\* the failed-add call is answered
FailedAddDone(r, ok) ==
    /\ runs[r].pc = "failedAdd"
    /\ runs' = [runs EXCEPT ![r] =
                    IF ok THEN Apology(Answer(@, ok), reactions, @.err)
                    ELSE Finally(Answer(@, ok), reactions, TRUE)]
    /\ UNCHANGED <<args, listening, reactions, commandHook, registered, posts>>

\* the send of the apology is answered
ApologyDone(r, ok) ==
    /\ runs[r].pc = "apology"
    /\ runs' = [runs EXCEPT ![r] = Finally(Answer(@, ok), reactions, ~ok)]
    /\ UNCHANGED <<args, listening, reactions, commandHook, registered, posts>>

\* (a variant with the loading-remove at the end of the try block, not in a
\* finally clause: its fault is caught like a handler fault)
LoadingRemoveDone_Caught(r, ok) ==
    /\ runs[r].pc = "loadingRemove"
    /\ runs' = [runs EXCEPT ![r] =
                    IF ok \/ @.thrown \/ @.err # NoFault
                    THEN LET thrown == ~ok \/ @.thrown
                         IN [Answer(@, ok) EXCEPT
                                !.pc = IF thrown THEN "rejected" ELSE "returned",
                                !.thrown = thrown]
                    ELSE Catch(Answer(@, ok), reactions, PlatformFault)]
    /\ UNCHANGED <<args, listening, reactions, commandHook, registered, posts>>

\* the loading-remove call is answered: processMessage settles
LoadingRemoveDone(r, ok) ==
    /\ runs[r].pc = "loadingRemove"
    /\ runs' = [runs EXCEPT ![r] =
                    LET thrown == ~ok \/ @.thrown
                    IN [Answer(@, ok) EXCEPT !.pc = IF thrown THEN "rejected" ELSE "returned",
                                             !.thrown = thrown]]
    /\ UNCHANGED <<args, listening, reactions, commandHook, registered, posts>>

\* the calls of a run that nobody awaits and the platform has not answered
Detached(run) ==
    {i \in 1..Len(run.calls) : ~run.calls[i].awaited /\ run.calls[i].status = "pending"}

\* the send of the reply is answered: its promise is awaited by nobody, so a
\* failure is an unhandled rejection
ReplyDone(r, i, ok) ==
    /\ i \in Detached(runs[r])
    /\ runs' = [runs EXCEPT ![r].calls[i] = Settled(@, ok),
                            ![r].unhandled = @ \/ ~ok]
    /\ UNCHANGED <<args, listening, reactions, commandHook, registered, posts>>

\* the steps by which the runs R go on after their first await
Lifecycle(R) ==
    \/ \E r \in R, ok \in BOOLEAN : LoadingAddDone(r, ok)
    \/ \E r \in R, message \in HandlerValues : HandlerReturn(r, message)
    \/ \E r \in R, err \in HandlerFaults : HandlerThrow(r, err)
    \/ \E r \in R, ok \in BOOLEAN : SuccessAddDone(r, ok)
    \/ \E r \in R, ok \in BOOLEAN : FailedAddDone(r, ok)
    \/ \E r \in R, ok \in BOOLEAN : ApologyDone(r, ok)
    \/ \E r \in R, ok \in BOOLEAN : LoadingRemoveDone(r, ok)
    \/ \E r \in R, ok \in BOOLEAN : \E i \in Detached(runs[r]) : ReplyDone(r, i, ok)

\* the steps of the adapter in which the runs R take part
NextOf(R) ==
    \/ \E hook \in Hooks : RegisterHandler(hook)
    \/ \E r \in R : \E msg \in IncomingMessages(r) : ProcessMessage(r, msg)
    \/ Lifecycle(R)

Next == NextOf(RunIds)

Spec == Init /\ [][Next]_vars

\* The event loop resumes a suspended run once the promise it awaits is settled,
\* and the platform client settles every call it was given (with an answer or an
\* error): Resume(r) is that step.  Nothing is assumed of the handler, nor of the
\* calls nobody awaits.
Resume(r) ==
    \E ok \in BOOLEAN :
        \/ LoadingAddDone(r, ok)
        \/ SuccessAddDone(r, ok)
        \/ FailedAddDone(r, ok)
        \/ ApologyDone(r, ok)
        \/ LoadingRemoveDone(r, ok)

\* One run, under every interleaving with registerHandler, and resumed fairly: what
\* a run does eventually does not depend on the other runs, with which it shares
\* only the hook and the reactions.
FairNext == NextOf({1})

FairSpec == Init /\ [][FairNext]_vars /\ WF_vars(Resume(1))

-----------------------------------------------------------------------------
(* listen: the event normalizer *)

\* args.botUserId, and the tag <@botUserId> of a mention of the bot
BotUserId == <<"U", "1">>
UserIdTag == <<"<", "@">> \o BotUserId \o <<">">>

\* text.includes(tag)
Includes(text, tag) == \E i \in 1..Len(text) : StartsWith(text, i, tag)

\* (a variant that removes every occurrence of the tag)
RECURSIVE ReplaceFirst_Every(_, _)
ReplaceFirst_Every(text, tag) ==
    IF ~Includes(text, tag) THEN text
    ELSE LET i == Least({j \in 1..Len(text) : StartsWith(text, j, tag)})
         IN SubSeq(text, 1, i - 1)
            \o ReplaceFirst_Every(SubSeq(text, i + Len(tag), Len(text)), tag)

\* text.replace(tag, ''), the pattern a string: its first occurrence is removed
ReplaceFirst(text, tag) ==
    IF ~Includes(text, tag) THEN text
    ELSE LET i == Least({j \in 1..Len(text) : StartsWith(text, j, tag)})
         IN SubSeq(text, 1, i - 1) \o SubSeq(text, i + Len(tag), Len(text))

\* listenArgs: the kinds of events to subscribe to (a flag left out reads false)
ListenArgs == [directMessage : BOOLEAN, mention : BOOLEAN]

\* the texts of direct messages: none, empty, plain, padded, with a tag
DirectTexts ==
    { Undef, Str(<<>>), Str(<<"h", "i">>), Str(<<" ", "h", "i", " ">>),
      Str(UserIdTag \o <<" ", "h", "i">>) }

\* the texts of app_mention events: without a tag, with the bot's tag in front,
\* with the tag twice and padded, with another user's tag, the tag alone
MentionTexts ==
    { Str(<<"h", "i">>),
      Str(UserIdTag \o <<" ", "h", "i">>),
      Str(<<" ", "a">> \o UserIdTag \o <<" ", "b", " ">> \o UserIdTag \o <<" ">>),
      Str(<<"<", "@", "U", "2", ">", " ", "h", "i">>),
      Str(UserIdTag) }

\* the inbound events of the platform
DirectEvents ==
    { [text |-> x, type |-> "message", channel |-> "D2", thread_ts |-> t,
       ts |-> "1700.0001"] : t \in {Undefined, "1699.0000"}, x \in DirectTexts }
MentionEvents ==
    { [text |-> x, type |-> "app_mention", channel |-> "C1", thread_ts |-> t,
       ts |-> "1700.0002"] : t \in {Undefined, "1699.0000"}, x \in MentionTexts }

\* the IncomingMessage the message callback builds
DirectMessageOf(event) ==
    [message |-> event.text.val, channelId |-> event.channel,
     threadId |-> event.thread_ts, messageId |-> event.ts, raw |-> event.text.val]

\* the IncomingMessage the app_mention callback builds
MentionOf(event) ==
    [message |-> Trim(ReplaceFirst(event.text.val, UserIdTag)),
     channelId |-> event.channel, threadId |-> event.thread_ts,
     messageId |-> event.ts, raw |-> event.text.val]

\* listen(listenArgs): subscribes to the enabled kinds and starts the session
Listen(listenArgs) ==
    /\ ~listening.started
    /\ listening' = [started |-> TRUE,
                     directMessage |-> listenArgs.directMessage, mention |-> listenArgs.mention]
    /\ UNCHANGED <<args, reactions, commandHook, registered, runs, posts>>

\* the callback of slackApp.message, up to the first await of processMessage
DirectMessage(r, event) ==
    /\ listening.started /\ listening.directMessage
    /\ runs[r].pc = "idle"
    /\ \A q \in 1..(r - 1) : runs[q].pc # "idle"
    /\ runs' = [runs EXCEPT ![r] =
                    IF ~Truthy(event.text)
                    THEN [@ EXCEPT !.pc = "ignored", !.event = event]
                    ELSE Begin([@ EXCEPT !.regs = registered.count, !.event = event],
                               reactions, commandHook, DirectMessageOf(event))]
    /\ UNCHANGED <<args, listening, reactions, commandHook, registered, posts>>

\* the callback of slackApp.event('app_mention'), up to the first await of
\* processMessage
Mention(r, event) ==
    /\ listening.started /\ listening.mention
    /\ runs[r].pc = "idle"
    /\ \A q \in 1..(r - 1) : runs[q].pc # "idle"
    /\ runs' = [runs EXCEPT ![r] =
                    IF ~Includes(event.text.val, UserIdTag)
                    THEN [@ EXCEPT !.pc = "ignored", !.event = event]
                    ELSE Begin([@ EXCEPT !.regs = registered.count, !.event = event],
                               reactions, commandHook, MentionOf(event))]
    /\ UNCHANGED <<args, listening, reactions, commandHook, registered, posts>>

\* the adapter driven by the events of one session: one inbound event, under every
\* interleaving with listen and registerHandler
NextListen ==
    \/ \E listenArgs \in ListenArgs : Listen(listenArgs)
    \/ \E hook \in Hooks : RegisterHandler(hook)
    \/ \E event \in DirectEvents : DirectMessage(1, event)
    \/ \E event \in MentionEvents : Mention(1, event)
    \/ Lifecycle({1})

SpecListen == Init /\ [][NextListen]_vars

-----------------------------------------------------------------------------
(* postMessage called by the application *)

DataTypes == {"text", "mrkdwn", "markdown", "image", "file", "audio"}
BlockKinds == {Undefined, "section", "context", "header"}
Payloads ==
    { Str(<<>>), Str(<<"h", "i">>), Str(<<"#", " ", "T", "\n", "*", "*", "b", "*", "*">>),
      Buf(<<"x89">>), Buf(<<>>) }
Targets == { <<"C1", Undefined>>, <<"D2", "1699.0000">> }

OutgoingMessages ==
    { [block |-> b, data |-> v, channelId |-> t[1], threadId |-> t[2], dataType |-> d] :
        d \in DataTypes, b \in BlockKinds, v \in Payloads, t \in Targets }

\* postMessage(message), up to its await
PostMessage(message) ==
    /\ Len(posts) < MaxPosts
    /\ LET cs == PostMessageCalls(message)
       IN posts' = Append(posts,
                     [message |-> message,
                      pc |-> IF cs = <<>> THEN "resolved" ELSE "awaiting",
                      calls |-> [i \in 1..Len(cs) |-> Pending(cs[i], TRUE)]])
    /\ UNCHANGED <<args, listening, reactions, commandHook, registered, runs>>

\* the platform answers the call of the n-th postMessage
PostMessageDone(n, ok) ==
    /\ n \in 1..Len(posts)
    /\ posts[n].pc = "awaiting"
    /\ posts' = [posts EXCEPT ![n].calls[1] = Settled(@, ok),
                              ![n].pc = IF ok THEN "resolved" ELSE "rejected"]
    /\ UNCHANGED <<args, listening, reactions, commandHook, registered, runs>>

NextPost ==
    \/ \E message \in OutgoingMessages : PostMessage(message)
    \/ \E n \in 1..MaxPosts, ok \in BOOLEAN : PostMessageDone(n, ok)

SpecPost == Init /\ [][NextPost]_vars

-----------------------------------------------------------------------------
(* markdownToMrkdwn applied: markdown messages posted by the application *)

\* how a line may begin: a header of each level, an item of each kind of list
LinePrefixes ==
    { <<>>, <<"#", " ">>, <<"#", "#", " ">>, <<"#", "#", "#", " ">>, <<"*", " ">>,
      <<"1", ".", " ">> }

\* what a line says: a word, a bold span, a word and a bold span
LineBodies ==
    { <<"a">>, <<"*", "*", "a", "*", "*">>, <<"a", " ", "*", "*", "b", "*", "*">> }

Lines == { p \o b : p \in LinePrefixes, b \in LineBodies }

\* what stands between two lines: a line break, an empty line, a line of blanks
LineBreaks == { <<"\n">>, <<"\n", "\n">>, <<"\n", " ", "\n">> }

\* the markdown texts of at most n lines
RECURSIVE MarkdownOfLines(_)
MarkdownOfLines(n) ==
    IF n <= 1 THEN Lines
    ELSE MarkdownOfLines(n - 1)
         \cup { l \o k \o t : l \in Lines, k \in LineBreaks, t \in MarkdownOfLines(n - 1) }

\* a text with every kind of markup: '# Title', an empty line, 'Some **bold** and
\* _italic_ and (code).', '* item one', '1. item two', '[link](http://x)'
MarkdownSample ==
    <<"#", " ", "T", "i", "t", "l", "e", "\n", "\n", "S", "o", "m", "e", " ", "*", "*",
      "b", "o", "l", "d", "*", "*", " ", "a", "n", "d", " ", "_", "i", "t", "a", "l",
      "i", "c", "_", " ", "a", "n", "d", " ", BackTick, "c", "o", "d", "e", BackTick,
      ".", "\n", "*", " ", "i", "t", "e", "m", " ", "o", "n", "e", "\n", "1", ".", " ",
      "i", "t", "e", "m", " ", "t", "w", "o", "\n", "[", "l", "i", "n", "k", "]", "(",
      "h", "t", "t", "p", ":", "/", "/", "x", ")">>

MarkdownTexts == MarkdownOfLines(MaxLines) \cup {MarkdownSample}

\* the application posts markdown: postMessage({ dataType: 'markdown', data: text })
MarkdownMessages ==
    { [block |-> Undefined, data |-> Str(text), channelId |-> "C1", threadId |-> Undefined,
       dataType |-> "markdown"] : text \in MarkdownTexts }

NextMarkdown ==
    \/ \E message \in MarkdownMessages : PostMessage(message)
    \/ \E n \in 1..MaxPosts, ok \in BOOLEAN : PostMessageDone(n, ok)

SpecMarkdown == Init /\ [][NextMarkdown]_vars

-----------------------------------------------------------------------------
(* Vocabulary of the properties *)

IsReaction(c) == c.api \in {"reactions.add", "reactions.remove"}
IsSend(c) == c.api \in {"chat.postMessage", "filesUploadV2"}

\* what a call of a run is, in the words of the lifecycle
Kind(run, c) ==
    IF IsSend(c) THEN "send"
    ELSE IF c.args.channel # run.msg.channelId \/ c.args.timestamp # run.msg.messageId
    THEN "foreign"
    ELSE IF c.api = "reactions.remove"
    THEN (IF c.args.name = reactions.loading THEN "loading-remove" ELSE "other")
    ELSE IF c.args.name = reactions.loading THEN "loading-add"
    ELSE IF c.args.name = reactions.success THEN "success-add"
    ELSE IF c.args.name = reactions.failed THEN "failed-add"
    ELSE "other"

Kinds(run) == [i \in 1..Len(run.calls) |-> Kind(run, run.calls[i])]

\* the calls of one kind a run issued
Of(run, kind) == {i \in 1..Len(run.calls) : Kind(run, run.calls[i]) = kind}

IsPrefix(a, b) == Len(a) <= Len(b) /\ a = SubSeq(b, 1, Len(a))

\* no platform call of the run has failed
NoneFailed(run) == \A i \in 1..Len(run.calls) : run.calls[i].status # "failed"

AllConfigured == ~Falsy(reactions.loading) /\ ~Falsy(reactions.success) /\ ~Falsy(reactions.failed)

IsSettled(run) == run.pc \in {"returned", "rejected"}

Boom == <<"b", "o", "o", "m">>

\* 'Sorry, something went wrong. (m)'
SorryText(m) ==
    <<"S", "o", "r", "r", "y", ",", " ", "s", "o", "m", "e", "t", "h", "i", "n", "g", " ",
      "w", "e", "n", "t", " ", "w", "r", "o", "n", "g", ".", " ">> \o <<"(">> \o m \o <<")">>

\* the message a fault carries: that of an Error, none otherwise
MessageOf(err) == IF err.thrown = "Error" THEN err.message ELSE <<>>

-----------------------------------------------------------------------------
(* C1 *)

C1_Order == <<"loading-add", "failed-add", "send", "loading-remove">>

\* C1: when the handler of the registered hook (synchronous or not) raises a fault
\* with message m, all three reactions are configured and no platform call fails,
\* the run issues loading-add, failed-add, one plain-text send of
\* 'Sorry, something went wrong. (m)' and loading-remove, in this order, and
\* nothing else: the calls issued so far are always the beginning of that list,
\* failed-add is issued as soon as the fault is caught, and the list is complete
\* when processMessage returns.
C1_HandlerFaultCalls ==
    \A r \in RunIds :
        LET run == runs[r]
        IN (run.result = "threw" /\ AllConfigured /\ NoneFailed(run)) =>
              /\ IsPrefix(Kinds(run), C1_Order)
              /\ Len(run.calls) >= 2
              /\ Len(run.calls) >= 3 =>
                    /\ run.calls[3].api = "chat.postMessage"
                    /\ DOMAIN run.calls[3].args = {"channel", "thread_ts", "text"}
                    /\ run.calls[3].args.text = SorryText(MessageOf(run.err))
              /\ run.pc = "returned" => Kinds(run) = C1_Order
              /\ IsSettled(run) => run.pc = "returned"

\* a synchronous hook's handler threw Error('boom') and a non-synchronous hook's
\* handler threw something without a message; both runs returned
C1_Witness ==
    /\ \E r \in RunIds : /\ runs[r].pc = "returned" /\ runs[r].result = "threw"
                         /\ runs[r].hook.isSync /\ runs[r].err = Error(Boom)
                         /\ NoneFailed(runs[r])
    /\ \E r \in RunIds : /\ runs[r].pc = "returned" /\ runs[r].result = "threw"
                         /\ ~runs[r].hook.isSync /\ runs[r].err.message = <<>>
                         /\ NoneFailed(runs[r])

-----------------------------------------------------------------------------
(* C2 *)

\* the run has a registered hook and a configured loading reaction, its
\* loading-add succeeded and its handler has completed (returned or raised)
C2_HandlerCompleted(run) ==
    /\ run.hook # NoHook
    /\ ~Falsy(reactions.loading)
    /\ Len(run.calls) >= 1 /\ Kind(run, run.calls[1]) = "loading-add"
    /\ run.calls[1].status = "ok"
    /\ run.result # "none"

C2_Removes(run) == Cardinality(Of(run, "loading-remove"))

\* C2: guaranteed cleanup.  In every run with a registered hook and a configured
\* loading reaction whose loading-add succeeded and whose handler completed,
\* loading-remove is eventually issued, and it is issued exactly once: never twice,
\* and once in every such run that has settled, also when failed-add or the send
\* of the apology failed.
C2_GuaranteedCleanup ==
    /\ [](\A r \in RunIds : C2_Removes(runs[r]) <= 1)
    /\ [](\A r \in RunIds :
            (C2_HandlerCompleted(runs[r]) /\ IsSettled(runs[r])) => C2_Removes(runs[r]) = 1)
    /\ \A r \in RunIds : C2_HandlerCompleted(runs[r]) ~> (C2_Removes(runs[r]) = 1)

\* the handler completed, the success-add failed, then the failed-add failed too,
\* and loading-remove was issued all the same
C2_Witness ==
    \E r \in RunIds :
        /\ C2_HandlerCompleted(runs[r])
        /\ \E i \in Of(runs[r], "success-add") : runs[r].calls[i].status = "failed"
        /\ \E i \in Of(runs[r], "failed-add") : runs[r].calls[i].status = "failed"
        /\ C2_Removes(runs[r]) = 1
        /\ runs[r].pc = "rejected"

-----------------------------------------------------------------------------
(* C3 *)

\* the sends of the handler's reply: the ones the run does not wait for
Replies(run) == {i \in Of(run, "send") : ~run.calls[i].awaited}

\* the sends of the apology
Apologies(run) ==
    {i \in Of(run, "send") :
        /\ run.calls[i].awaited
        /\ run.calls[i].api = "chat.postMessage"
        /\ \E m \in {Boom, <<>>, PlatformFault.message} :
              run.calls[i].args.text = SorryText(m)}

\* C3: when a synchronous handler returned non-empty content and the send (or
\* upload) of that reply failed, the run handles it as a handler fault: no
\* success reaction is added, and the failed reaction and the apology are issued
\* before the run settles.
C3_ReplyFailureIsCaught ==
    \A r \in RunIds :
        LET run == runs[r]
        IN (/\ run.hook.isSync /\ run.result = "returned" /\ Truthy(run.value)
            /\ \E i \in Replies(run) : run.calls[i].status = "failed")
           => /\ Of(run, "success-add") = {}
              /\ IsSettled(run) => Of(run, "failed-add") # {} /\ Apologies(run) # {}

-----------------------------------------------------------------------------
(* C4 *)

\* C4: a reaction kind the constructor's configuration leaves unset is disabled:
\* with reactions.loading unset no run issues a loading-add or a loading-remove,
\* and an unset success or failed reaction is never added.
C4_UnsetReactionDisabled ==
    \A r \in RunIds : \A i \in 1..Len(runs[r].calls) :
        LET c == runs[r].calls[i]
        IN IsReaction(c) =>
              /\ args.loading = Undefined => c.args.name # reactions.loading
              /\ args.success = Undefined => c.args.name # reactions.success
              /\ args.failed = Undefined => c.args.name # reactions.failed

-----------------------------------------------------------------------------
(* C5 *)

\* C5: as long as no hook is registered, processMessage issues no reaction call
\* and no send or upload, whatever the incoming message: every run made so far
\* has returned with no platform call.
C5_NoHookNoCalls ==
    commandHook = NoHook =>
        \A r \in RunIds : runs[r].calls = <<>> /\ runs[r].pc \in {"idle", "returned"}

\* every inbound message was processed while no hook was registered
C5_Witness ==
    /\ commandHook = NoHook
    /\ \A r \in RunIds : runs[r].pc = "returned" /\ runs[r].msg.messageId = MessageId(r)

-----------------------------------------------------------------------------
(* C6 *)

C6_Order == <<"loading-add", "success-add", "loading-remove">>

\* C6: when the handler of a synchronous hook returns empty content and no
\* platform call fails, the run issues loading-add, success-add and
\* loading-remove, once each and in this order, and neither a send nor a
\* failed-add: the calls issued so far are always the beginning of that list, the
\* success-add is issued as soon as the handler returns, and the list is complete
\* when processMessage returns.
C6_EmptyContentCalls ==
    \A r \in RunIds :
        LET run == runs[r]
        IN (/\ run.hook.isSync /\ run.result = "returned" /\ run.value = Str(<<>>)
            /\ AllConfigured /\ NoneFailed(run))
           => /\ IsPrefix(Kinds(run), C6_Order)
              /\ Len(run.calls) >= 2
              /\ run.pc = "returned" => Kinds(run) = C6_Order
              /\ IsSettled(run) => run.pc = "returned"

\* a synchronous handler returned the empty string and the run has returned
C6_Witness ==
    \E r \in RunIds :
        /\ runs[r].hook.isSync /\ runs[r].result = "returned" /\ runs[r].value = Str(<<>>)
        /\ runs[r].pc = "returned" /\ NoneFailed(runs[r])

-----------------------------------------------------------------------------
(* C7 *)

\* C7: with a non-synchronous hook, a handler that returns normally, whatever it
\* returns, gets loading-add and loading-remove and nothing else: no send, no
\* success reaction.  When that handler raises, the failed reaction is added and,
\* once the platform has accepted it, the apology is sent.
C7_NonSyncHook ==
    \A r \in RunIds :
        LET run == runs[r]
        IN (run.hook # NoHook /\ ~run.hook.isSync) =>
              /\ run.result = "returned" =>
                    Kinds(run) = <<"loading-add", "loading-remove">>
              /\ run.result = "threw" =>
                    /\ Len(run.calls) >= 2
                    /\ Kind(run, run.calls[2]) = "failed-add"
                    /\ Of(run, "success-add") = {}
                    /\ run.calls[2].status = "ok" =>
                          /\ Len(run.calls) >= 3
                          /\ run.calls[3].api = "chat.postMessage"
                          /\ run.calls[3].args.text = SorryText(MessageOf(run.err))

\* a non-synchronous handler returned content and got no reply; another one
\* raised and got the failed reaction and the apology
C7_Witness ==
    /\ \E r \in RunIds :
          /\ runs[r].hook # NoHook /\ ~runs[r].hook.isSync
          /\ runs[r].result = "returned" /\ Truthy(runs[r].value)
          /\ runs[r].pc = "returned"
    /\ \E r \in RunIds :
          /\ runs[r].hook # NoHook /\ ~runs[r].hook.isSync
          /\ runs[r].result = "threw" /\ Apologies(runs[r]) # {}
          /\ runs[r].pc = "returned"

-----------------------------------------------------------------------------
(* C8 *)

\* the channel a send or an upload goes to
Channel(c) == IF c.api = "chat.postMessage" THEN c.args.channel ELSE c.args.channel_id

\* C8: the reply and the apology go to the channel and the thread of the incoming
\* message: their channel is the incoming channelId and, when the incoming
\* message has a threadId, their thread is that threadId.
C8_SameChannelAndThread ==
    \A r \in RunIds : \A i \in Of(runs[r], "send") :
        /\ Channel(runs[r].calls[i]) = runs[r].msg.channelId
        /\ runs[r].msg.threadId # Undefined =>
              runs[r].calls[i].args.thread_ts = runs[r].msg.threadId

-----------------------------------------------------------------------------
(* C9 *)

TextTypes == {"text", "mrkdwn", "markdown"}
FileTypes == {"image", "file"}

\* C9: a postMessage call issues at most one platform call: one sendMessage when
\* dataType is text, mrkdwn or markdown and data is a string (for text, with the
\* data as its text and without blocks), one uploadFile named data.png (image) or
\* data.txt (file) when dataType is image or file and data is binary, and for any
\* other combination no call at all, returning without an error.
C9_OneCallOrNone ==
    \A n \in 1..Len(posts) :
        LET m == posts[n].message
            cs == posts[n].calls
        IN /\ Len(cs) <= 1
           /\ (m.dataType \in TextTypes /\ IsString(m.data)) =>
                 /\ Len(cs) = 1
                 /\ cs[1].api = "chat.postMessage"
                 /\ cs[1].args.channel = m.channelId
                 /\ m.dataType = "text" =>
                       /\ DOMAIN cs[1].args = {"channel", "thread_ts", "text"}
                       /\ cs[1].args.text = m.data.val
           /\ (m.dataType \in FileTypes /\ IsBuffer(m.data)) =>
                 /\ Len(cs) = 1
                 /\ cs[1].api = "filesUploadV2"
                 /\ cs[1].args.channel_id = m.channelId
                 /\ cs[1].args.file = m.data.val
                 /\ cs[1].args.filename = (IF m.dataType = "image" THEN "data.png" ELSE "data.txt")
           /\ ~(m.dataType \in TextTypes /\ IsString(m.data))
                /\ ~(m.dataType \in FileTypes /\ IsBuffer(m.data)) =>
                 /\ cs = <<>>
                 /\ posts[n].pc = "resolved"

\* postMessage was given dataType file with a binary payload and uploaded it
C9_Witness ==
    \E n \in 1..Len(posts) :
        /\ posts[n].message.dataType = "file" /\ posts[n].message.data = Buf(<<"x89">>)
        /\ Len(posts[n].calls) = 1 /\ posts[n].calls[1].status = "ok"
        /\ posts[n].pc = "resolved"

-----------------------------------------------------------------------------
(* C10 *)

\* C10: for dataType mrkdwn and markdown (and a string payload) postMessage sends
\* exactly one layout block: a section block when block is 'section', a context
\* block for any other value of block, also when it is not given; the markup
\* text of the block is the data for mrkdwn and markdownToMrkdwn of the data for
\* markdown, and the fallback text is the data as given.
C10_OneLayoutBlock ==
    \A n \in 1..Len(posts) :
        LET m == posts[n].message
            cs == posts[n].calls
            markup == IF m.dataType = "mrkdwn" THEN m.data.val
                      ELSE markdownToMrkdwn(m.data.val)
        IN (m.dataType \in {"mrkdwn", "markdown"} /\ IsString(m.data)) =>
              /\ Len(cs) = 1
              /\ Len(cs[1].args.blocks) = 1
              /\ m.block = "section" =>
                    cs[1].args.blocks[1] =
                        [text |-> [text |-> markup, type |-> "mrkdwn"], type |-> "section"]
              /\ m.block # "section" =>
                    cs[1].args.blocks[1] =
                        [type |-> "context",
                         elements |-> <<[text |-> markup, type |-> "mrkdwn"]>>]
              /\ cs[1].args.text = m.data.val

\* a markdown message without a block kind was sent as a context block with the
\* converted markup, the text as given beside it
C10_Witness ==
    \E n \in 1..Len(posts) :
        /\ posts[n].message.dataType = "markdown"
        /\ posts[n].message.block = Undefined
        /\ posts[n].message.data = Str(<<"#", " ", "T", "\n", "*", "*", "b", "*", "*">>)
        /\ Len(posts[n].calls) = 1
        /\ posts[n].calls[1].args.blocks =
              <<[type |-> "context",
                 elements |-> <<[text |-> <<"*", "T", "*", "\n", "*", "b", "*">>,
                                 type |-> "mrkdwn"]>>]>>
        /\ posts[n].calls[1].args.text = <<"#", " ", "T", "\n", "*", "*", "b", "*", "*">>

-----------------------------------------------------------------------------
(* C11 *)

\* C11: registerHandler replaces the one active hook.  There is one hook slot: it
\* is empty exactly as long as nothing was registered.  A run that started after
\* the last registerHandler call made so far invokes no handler but that of the
\* hook given to that last call, whatever was registered before, and invokes it
\* at most once: exactly once as soon as its loading-add was accepted.
C11_RegisterReplaces ==
    /\ commandHook \in Hooks \cup {NoHook}
    /\ (commandHook = NoHook) <=> (registered.count = 0)
    /\ \A r \in RunIds :
          LET run == runs[r]
          IN (run.pc # "idle" /\ run.regs >= 1 /\ run.regs = registered.count) =>
                /\ IsPrefix(run.invoked, <<registered.last.handler>>)
                /\ (Len(run.calls) >= 1 /\ run.calls[1].status = "ok") =>
                      run.invoked = <<registered.last.handler>>

\* registerHandler(h1) then registerHandler(h2): the first run, started in
\* between, invoked h1's handler; the second run, started after both, invoked
\* h2's handler once and has returned
C11_Witness ==
    /\ registered.count = 2
    /\ runs[1].regs = 1 /\ runs[1].invoked # <<>>
    /\ runs[1].invoked # <<registered.last.handler>>
    /\ runs[2].regs = 2 /\ runs[2].invoked = <<registered.last.handler>>
    /\ runs[2].pc = "returned"

-----------------------------------------------------------------------------
(* C12 *)

\* the event of the run was forwarded to processMessage
C12_Forwarded(run) == run.pc # "ignored"

\* m is s without the whitespace at its two ends
C12_IsTrimOf(m, s) ==
    \E a \in 0..Len(s), b \in 0..Len(s) :
        /\ a + b <= Len(s)
        /\ m = SubSeq(s, a + 1, Len(s) - b)
        /\ \A k \in (1..a) \cup ((Len(s) - b + 1)..Len(s)) : IsSpace(s[k])
        /\ m # <<>> => ~IsSpace(m[1]) /\ ~IsSpace(m[Len(m)])

\* position i is where the bot's tag first occurs in text
C12_FirstTag(text, i) ==
    /\ StartsWith(text, i, UserIdTag)
    /\ \A j \in 1..(i - 1) : ~StartsWith(text, j, UserIdTag)

\* C12: event normalization.  A direct-message event is forwarded to
\* processMessage if and only if it carries a non-empty text, with message and raw
\* that text.  A mention event is forwarded if and only if its text contains the
\* tag of the bot, with raw the text as it came and message the text without the
\* first occurrence of the tag, trimmed.  In both cases messageId, channelId and
\* threadId are the timestamp, the channel and the thread timestamp of the event.
C12_EventNormalization ==
    \A r \in RunIds :
        LET run == runs[r]
            event == run.event
        IN /\ event.type = "message" =>
                /\ C12_Forwarded(run) <=> (event.text # Undef /\ event.text.val # <<>>)
                /\ C12_Forwarded(run) =>
                      /\ run.msg.message = event.text.val
                      /\ run.msg.raw = event.text.val
           /\ event.type = "app_mention" =>
                /\ C12_Forwarded(run) <=>
                      \E i \in 1..Len(event.text.val) : StartsWith(event.text.val, i, UserIdTag)
                /\ C12_Forwarded(run) =>
                      /\ run.msg.raw = event.text.val
                      /\ \E i \in 1..Len(event.text.val) :
                            /\ C12_FirstTag(event.text.val, i)
                            /\ C12_IsTrimOf(run.msg.message,
                                            SubSeq(event.text.val, 1, i - 1)
                                            \o SubSeq(event.text.val, i + Len(UserIdTag),
                                                      Len(event.text.val)))
           /\ (event.type # "none" /\ C12_Forwarded(run)) =>
                /\ run.msg.messageId = event.ts
                /\ run.msg.channelId = event.channel
                /\ run.msg.threadId = event.thread_ts

\* a mention whose text has the tag twice, in a thread, was forwarded: the second
\* tag is still in the message, the blanks at both ends are not, and the run went
\* on to add the loading reaction to the event's message
C12_Witness ==
    /\ runs[1].event.type = "app_mention"
    /\ runs[1].event.thread_ts = "1699.0000"
    /\ runs[1].msg.raw = <<" ", "a">> \o UserIdTag \o <<" ", "b", " ">> \o UserIdTag \o <<" ">>
    /\ runs[1].msg.message = <<"a", " ", "b", " ">> \o UserIdTag
    /\ Len(runs[1].calls) >= 1
    /\ runs[1].calls[1].args.timestamp = "1700.0002"

-----------------------------------------------------------------------------
(* C13 *)

\* the mrkdwn a posted markdown message was sent as: the text of its block
Mrkdwn(post) == post.calls[1].args.blocks[1].elements[1].text

\* '*Title*', an empty line, 'Some *bold* and _italic_ and (code).',
\* '(bullet) item one', '(bullet) item two', '<http://x|link>'
C13_Expected ==
    <<"*", "T", "i", "t", "l", "e", "*", "\n", "\n", "S", "o", "m", "e", " ", "*", "b",
      "o", "l", "d", "*", " ", "a", "n", "d", " ", "_", "i", "t", "a", "l", "i", "c",
      "_", " ", "a", "n", "d", " ", BackTick, "c", "o", "d", "e", BackTick, ".", "\n",
      Bullet, " ", "i", "t", "e", "m", " ", "o", "n", "e", "\n", Bullet, " ", "i", "t",
      "e", "m", " ", "t", "w", "o", "\n", "<", "h", "t", "t", "p", ":", "/", "/", "x",
      "|", "l", "i", "n", "k", ">">>

\* text has a run of whitespace-only lines between two lines
C13_HasBlankLines(text) ==
    \E i \in 1..Len(text) :
        /\ text[i] = "\n"
        /\ \E j \in (i + 1)..Len(text) :
              text[j] = "\n" /\ \A k \in (i + 1)..(j - 1) : IsSpace(text[k])

\* text has exactly one empty line, and no other whitespace-only line
C13_OneEmptyLine(text) ==
    /\ \E i \in 1..(Len(text) - 1) : text[i] = "\n" /\ text[i + 1] = "\n"
    /\ ~\E i \in 1..(Len(text) - 2) : \A k \in i..(i + 2) : IsSpace(text[k])

\* C13: markdownToMrkdwn keeps paragraph breaks while it converts the markup: a
\* run of whitespace-only lines between two lines of the markdown is one empty
\* line of the mrkdwn, and the sample text ('# Title', an empty line, 'Some
\* **bold** ...') is converted to the expected text, its empty line included.
C13_KeepsParagraphBreaks ==
    \A n \in 1..Len(posts) :
        LET markdown == posts[n].message.data.val
        IN /\ markdown = MarkdownSample => Mrkdwn(posts[n]) = C13_Expected
           /\ (markdown # MarkdownSample /\ C13_HasBlankLines(markdown)) =>
                 C13_OneEmptyLine(Mrkdwn(posts[n]))

-----------------------------------------------------------------------------
(* C14 *)

\* C14: markdownToMrkdwn is idempotent on texts built from headers, bold spans
\* and list lines: converting the mrkdwn of such a text once more changes
\* nothing.
C14_Idempotent ==
    \A n \in 1..Len(posts) :
        posts[n].message.data.val # MarkdownSample =>
            markdownToMrkdwn(Mrkdwn(posts[n])) = Mrkdwn(posts[n])

-----------------------------------------------------------------------------
(* C15 *)

\* C15: on the synchronous path with non-empty content the steps are strictly
\* ordered: when the success reaction is added, when the loading reaction is
\* removed and when processMessage finishes, the send of the reply has completed
\* (succeeded or failed) and is no longer in flight.
C15_ReplyCompletesFirst ==
    \A r \in RunIds :
        LET run == runs[r]
        IN (/\ run.sync /\ run.result = "returned" /\ Truthy(run.value)
            /\ \/ Of(run, "success-add") # {}
               \/ Of(run, "loading-remove") # {}
               \/ IsSettled(run))
           => \A i \in Replies(run) : run.calls[i].status # "pending"

-----------------------------------------------------------------------------
(* C16 *)

\* the loading-add call of the run faulted
C16_LoadingAddFaulted(run) ==
    /\ Len(run.calls) >= 1
    /\ Kind(run, run.calls[1]) = "loading-add"
    /\ run.calls[1].status = "failed"

\* C16: when the loading-add call faults, processMessage fails before the try
\* block: the handler of the registered hook is not invoked for that message, no
\* success-add, failed-add, send or loading-remove is issued, and the fault
\* propagates to the caller of processMessage.
C16_LoadingAddFault ==
    \A r \in RunIds :
        C16_LoadingAddFaulted(runs[r]) =>
            /\ runs[r].invoked = <<>>
            /\ runs[r].result = "none"
            /\ Kinds(runs[r]) = <<"loading-add">>
            /\ runs[r].pc = "rejected"
            /\ runs[r].thrown

\* a hook is registered, a message came in and its loading-add faulted
C16_Witness ==
    \E r \in RunIds :
        /\ commandHook # NoHook
        /\ runs[r].msg.messageId = MessageId(r)
        /\ C16_LoadingAddFaulted(runs[r])
        /\ runs[r].pc = "rejected"

-----------------------------------------------------------------------------
(* C17 *)

\* the success-add calls of the run that faulted
C17_FaultedSuccessAdds(run) == {i \in Of(run, "success-add") : run.calls[i].status = "failed"}

\* C17: when the handler of a synchronous hook returned and the success-add call
\* faults, the fault takes the path of a handler fault: the calls the run issues
\* after it are, as long as none of them faults, failed-add, the send of the
\* apology (with the message of the fault) and loading-remove, in this order;
\* failed-add is issued as soon as the fault is caught, and processMessage
\* returns with the three issued, without propagating the fault.
C17_SuccessAddFault ==
    \A r \in RunIds :
        LET run == runs[r]
        IN \A i \in C17_FaultedSuccessAdds(run) :
              LET after == SubSeq(run.calls, i + 1, Len(run.calls))
                  kinds == [k \in 1..Len(after) |-> Kind(run, after[k])]
              IN (\A k \in 1..Len(after) : after[k].status # "failed") =>
                    /\ run.sync /\ run.result = "returned"
                    /\ IsPrefix(kinds, <<"failed-add", "send", "loading-remove">>)
                    /\ Len(after) >= 1
                    /\ Len(after) >= 2 =>
                          /\ after[2].api = "chat.postMessage"
                          /\ after[2].args.text = SorryText(PlatformFault.message)
                    /\ IsSettled(run) =>
                          /\ run.pc = "returned"
                          /\ kinds = <<"failed-add", "send", "loading-remove">>

\* a synchronous handler returned, the success-add faulted, and the run returned
\* after failed-add, the apology and loading-remove
C17_Witness ==
    \E r \in RunIds :
        /\ runs[r].sync /\ runs[r].result = "returned"
        /\ C17_FaultedSuccessAdds(runs[r]) # {}
        /\ \E i \in Of(runs[r], "failed-add") : runs[r].calls[i].status = "ok"
        /\ Apologies(runs[r]) # {}
        /\ \E i \in Of(runs[r], "loading-remove") : runs[r].calls[i].status = "ok"
        /\ runs[r].pc = "returned"

-----------------------------------------------------------------------------
(* C18 *)

\* the calls of all runs that add (api reactions.add) or remove (reactions.remove)
\* the loading reaction of the message msg
C18_LoadingCalls(api, msg) ==
    UNION { { <<r, i>> : i \in {j \in 1..Len(runs[r].calls) :
                                   /\ runs[r].calls[j].api = api
                                   /\ runs[r].calls[j].args.name = reactions.loading
                                   /\ runs[r].calls[j].args.channel = msg.channelId
                                   /\ runs[r].calls[j].args.timestamp = msg.messageId} } :
            r \in RunIds }

\* C18: under every interleaving of concurrent runs for distinct messages, every
\* reaction call of a run names the channel and the timestamp of the run's own
\* message and every send the run's own channel, so no run touches the reactions
\* of another message; for each message the loading reaction is never removed
\* more often than it was added, and when all runs have completed and no platform
\* call has faulted it was removed as often as it was added.
C18_RunsAreIndependent ==
    /\ \A r \in RunIds : \A i \in 1..Len(runs[r].calls) :
          LET c == runs[r].calls[i]
          IN /\ IsReaction(c) =>
                /\ c.args.channel = runs[r].msg.channelId
                /\ c.args.timestamp = runs[r].msg.messageId
                /\ \A q \in RunIds \ {r} :
                      runs[q].pc # "idle" => c.args.timestamp # runs[q].msg.messageId
             /\ IsSend(c) => Channel(c) = runs[r].msg.channelId
    /\ \A r \in RunIds :
          runs[r].pc # "idle" =>
             /\ Cardinality(C18_LoadingCalls("reactions.remove", runs[r].msg))
                   <= Cardinality(C18_LoadingCalls("reactions.add", runs[r].msg))
             /\ (\A q \in RunIds : IsSettled(runs[q]) /\ NoneFailed(runs[q])) =>
                   Cardinality(C18_LoadingCalls("reactions.remove", runs[r].msg))
                      = Cardinality(C18_LoadingCalls("reactions.add", runs[r].msg))

\* two runs were in their handlers at the same time and the second one was the
\* first to finish: the loading reaction of its message was added and removed
\* once, that of the other message added and not yet removed
C18_Witness ==
    /\ runs[1].pc = "handler" /\ runs[2].pc = "returned"
    /\ runs[2].result # "none" /\ NoneFailed(runs[2])
    /\ Cardinality(C18_LoadingCalls("reactions.add", runs[2].msg)) = 1
    /\ Cardinality(C18_LoadingCalls("reactions.remove", runs[2].msg)) = 1
    /\ Cardinality(C18_LoadingCalls("reactions.add", runs[1].msg)) = 1
    /\ Cardinality(C18_LoadingCalls("reactions.remove", runs[1].msg)) = 0

-----------------------------------------------------------------------------
(* C19 *)

\* C19: a run uses one hook throughout: the branch it takes (synchronous or not)
\* is that of the hook whose handler it invoked, and the reply is posted with the
\* dataType and the block of that same hook, also when registerHandler is called
\* while the run is suspended at the loading-add call or in the handler.
C19_OneHookPerRun ==
    \A r \in RunIds :
        LET run == runs[r]
        IN /\ run.invoked # <<>> =>
                /\ run.invoked = <<run.hook.handler>>
                /\ run.sync = run.hook.isSync
           /\ (run.sync /\ run.result = "returned" /\ Truthy(run.value)) =>
                LET expected == PostMessageCalls([block |-> run.hook.block,
                                                  data |-> run.value,
                                                  channelId |-> run.msg.channelId,
                                                  threadId |-> run.msg.messageId,
                                                  dataType |-> run.hook.dataType])
                    reply == [k \in 1..Cardinality(Replies(run)) |->
                                 LET i == CHOOSE j \in Replies(run) : TRUE
                                 IN [args |-> run.calls[i].args, api |-> run.calls[i].api]]
                IN reply = expected

-----------------------------------------------------------------------------
(* C20 *)

\* the statement as first made: a run issues at most one outbound message, the
\* reply or the apology and never both, and never adds both the success and the
\* failed reaction to its message, whichever platform call faults.
C20_OneOutboundMessage ==
    \A r \in RunIds :
        /\ Cardinality(Of(runs[r], "send")) <= 1
        /\ ~(Replies(runs[r]) # {} /\ Apologies(runs[r]) # {})
        /\ ~(/\ \E i \in Of(runs[r], "success-add") : runs[r].calls[i].status = "ok"
             /\ \E i \in Of(runs[r], "failed-add") : runs[r].calls[i].status = "ok")

\* C20 (amended): a run issues at most one reply and at most one apology, and no
\* other outbound message; it issues both only when the success-add call faulted
\* after the reply was posted.  The failed reaction is never added after a
\* success-add that succeeded, so the two reactions are never both added to the
\* message, whichever platform call faults.
C20_ReplyAndApology ==
    \A r \in RunIds :
        LET run == runs[r]
        IN /\ Cardinality(Replies(run)) <= 1
           /\ Cardinality(Apologies(run)) <= 1
           /\ Of(run, "send") = Replies(run) \cup Apologies(run)
           /\ (Replies(run) # {} /\ Apologies(run) # {}) =>
                 /\ C17_FaultedSuccessAdds(run) # {}
                 /\ \A i \in Replies(run), j \in C17_FaultedSuccessAdds(run),
                       k \in Apologies(run) : i < j /\ j < k
           /\ Apologies(run) # {} => (run.result = "threw" \/ C17_FaultedSuccessAdds(run) # {})
           /\ (\E i \in Of(run, "success-add") : run.calls[i].status = "ok") =>
                 Of(run, "failed-add") = {}

\* a run posted the reply, its success-add faulted, and it sent the apology too:
\* both sends were accepted and the run has returned
C20_Witness ==
    \E r \in RunIds :
        /\ \E i \in Replies(runs[r]) : runs[r].calls[i].status = "ok"
        /\ \E i \in Apologies(runs[r]) : runs[r].calls[i].status = "ok"
        /\ C17_FaultedSuccessAdds(runs[r]) # {}
        /\ runs[r].pc = "returned"

=============================================================================
